---------------------------- MODULE Spec2Model ----------------------------
(***************************************************************************)
(* A model of pylink/eyeLinkFramework.py: the session bookkeeping          *)
(* (init_files, makeFolder) and the eyeLink facade with its nested window  *)
(* helper.  The vendor SDK (pylink.EyeLink) and pygame are the environment *)
(* of the program: every call the facade makes into them is appended to a  *)
(* trace, and the outcome of a vendor call (a return code, a raised        *)
(* RuntimeError) is drawn nondeterministically where the facade reads it.  *)
(*                                                                         *)
(* Strings that the code takes apart (the EDF file name) are sequences of  *)
(* one-character strings; paths are sequences of components, a component  *)
(* being a sequence of string tokens.                                      *)
(***************************************************************************)
EXTENDS Integers, Sequences, FiniteSets, TLC

VARIABLES
    \* ---- init_files (module level) ----
    fpc,            \* "idle" | "prompt" | "returned" | "raised"
    results_folder, \* the argument of init_files
    edf_fname,      \* the name derived from the last input
    printed,        \* lines printed by the current call of init_files
    dirs,           \* the folders that exist (os.path.exists)
    clock,          \* time.localtime(), in minutes of the day
    made,           \* the paths makeFolder was called with, this call
    fret,           \* what the last completed call returned
    prevret,        \* what the call before it returned
    dirs0,          \* the folders at the start of the current call
    t0,             \* the clock when the session identifier was formed
    ncalls,         \* calls of init_files so far
    nprompts,       \* inputs read by the current call
    \* ---- the eyeLink facade ----
    pc,             \* "new" | "idle" | "wait_key" | "calibrate" |
                    \* "driftCheck" | "exited"
    address,        \* self.address
    dm,             \* self.dm
    win,            \* self.win, self.genv: "unset" | "set"
    ias_file,       \* self.ias_file: "unset" | "open" | "closed"
    conn,           \* the tracker: what isConnected() reports
    rec,            \* the tracker: what isRecording() reports
    brk,            \* the tracker: what breakPressed() reports
    queue,          \* pygame's event queue, while wait_key runs
    ticks,          \* pygame.time.get_ticks(), while wait_key runs
    since,          \* the keys pressed since the current wait_key began
    wk,             \* wait_key's locals: key_list, duration, t_start, caller
    resp,           \* wait_key's resp
    op,             \* the facade method running or last run, its arguments
    ret,            \* what it returned ("pending" while it runs)
    seg,            \* the calls it issued, in order
    step,           \* position in Script, -1 once the run has left it
    log,            \* the tracker calls of the run so far, while on Script
    ndrift,         \* iterations of driftCheck's loop, this call
    error,          \* self.error, "unset" until checkDisconnect assigns it
    \* ---- the interest area file of create_ia, followed by SpecIa ----
    ias_path,       \* the trial index in the path of self.ias_file, 0: none
    ias_buf,        \* what was written to self.ias_file and not yet flushed
    ias_disk,       \* the content of the file IA_<i>.ias, by trial index
    ias_msgs,       \* the msgs given to create_ia since the last newTrial=True
    \* ---- the ctypes binding module, followed by SpecBind ----
    bind            \* the last call of a wrapper: what it was given, what it
                    \* called, what came back and what it returned

fvars == <<fpc, results_folder, edf_fname, printed, dirs, clock, made, fret,
           prevret, dirs0, t0, ncalls, nprompts>>

ivars == <<ias_path, ias_buf, ias_disk, ias_msgs>>

evars == <<pc, address, dm, win, ias_file, conn, rec, brk, queue,
           ticks, since, wk, resp, op, ret, seg, step, log, ndrift, error,
           ivars, bind>>

vars == <<fvars, evars>>

(***************************************************************************)
(* Bounds of the model.                                                    *)
(***************************************************************************)
MaxSuffix == 1      \* typed characters after the optional padding
MaxCalls == 2       \* calls of init_files in one run
MaxPrompts == 1     \* inputs read by one call of init_files
MaxTicks == 1       \* minutes the clock advances in one run
StartMinute == 598  \* the minute of the day at which a run begins

None == "None"

(***************************************************************************)
(* init_files                                                              *)
(***************************************************************************)
NameLimit == 8

Letters ==
    {"a","b","c","d","e","f","g","h","i","j","k","l","m","n","o","p","q","r",
     "s","t","u","v","w","x","y","z","A","B","C","D","E","F","G","H","I","J",
     "K","L","M","N","O","P","Q","R","S","T","U","V","W","X","Y","Z"}

Digits == {"0","1","2","3","4","5","6","7","8","9"}

Whitespace == {" ", "\t", "\n", "\r"}

\* allowed_char = ascii_letters + digits + "_"
allowed_char == Letters \cup Digits \cup {"_"}

\* str.rstrip(): trailing whitespace removed
RECURSIVE rstrip(_)
rstrip(s) ==
    IF s = <<>> THEN s
    ELSE IF s[Len(s)] \in Whitespace THEN rstrip(SubSeq(s, 1, Len(s) - 1))
    ELSE s

SetMin(S) == CHOOSE x \in S : \A y \in S : x <= y

\* str.split(".")[0]: everything before the first "."
split_dot_0(s) ==
    LET dots == {i \in 1..Len(s) : s[i] = "."}
    IN  IF dots = {} THEN s ELSE SubSeq(s, 1, SetMin(dots) - 1)

\* edf_fname = edf_fname.rstrip().split(".")[0]
derive_name(s) == split_dot_0(rstrip(s))

all_allowed(name) == \A i \in 1..Len(name) : name[i] \in allowed_char

\* a variant for comparison: the prompt loop without its length test
name_check_nolimit(name) ==
    IF ~all_allowed(name) THEN "ERROR: Invalid EDF filename" ELSE None

\* the if / elif / else of the prompt loop: the line printed, or None on break
name_check(name) ==
    IF ~all_allowed(name) THEN "ERROR: Invalid EDF filename"
    ELSE IF Len(name) > NameLimit
         THEN "ERROR: EDF filename should not exceed 8 characters"
         ELSE None

Pad2(n) == IF n < 10 THEN "0" \o ToString(n) ELSE ToString(n)

\* time.strftime("_%Y_%m_%d_%H_%M", time.localtime())
time_str(now) ==
    <<"_", "2026", "_", "11", "_", "03", "_", Pad2(now \div 60), "_",
      Pad2(now % 60)>>

Prefixes(path) == {SubSeq(path, 1, n) : n \in 1..Len(path)}

\* os.path.exists(path)
exists(path, d) == path \in d

\* makeFolder(path) -> os.makedirs(path): the path and its missing parents
\* are created; FileExistsError when the path is already there
makeFolder(path, d) ==
    [ok |-> path \notin d, dirs |-> d \cup Prefixes(path)]

\* a variant for comparison: makeFolder called whether or not the path exists
ensure_folder_always(path, st) ==
    LET r == makeFolder(path, st.dirs)
    IN  IF ~st.ok THEN st
        ELSE [ok |-> r.ok, dirs |-> IF r.ok THEN r.dirs ELSE st.dirs,
              made |-> Append(st.made, path)]

\* if not os.path.exists(path): makeFolder(path)
\* state is [ok, dirs, made]
ensure_folder(path, st) ==
    IF ~st.ok \/ exists(path, st.dirs) THEN st
    ELSE LET r == makeFolder(path, st.dirs)
         IN  [ok |-> r.ok, dirs |-> IF r.ok THEN r.dirs ELSE st.dirs,
              made |-> Append(st.made, path)]

session_identifier(name, now) == name \o time_str(now)

\* lines 115-134: the three folders, in order
create_folders(rf, name, now, d) ==
    LET sid == session_identifier(name, now)
        session_folder == Append(rf, sid)
        aoi_folder == Append(session_folder, <<"aoi">>)
        s1 == ensure_folder(rf, [ok |-> TRUE, dirs |-> d, made |-> <<>>])
        s2 == ensure_folder(session_folder, s1)
    IN  ensure_folder(aoi_folder, s2)

InputChars == {"a", "-", " ", "."}

\* NameLimit allowed characters: letters of both cases, digits, underscore
Stem == <<"e", "Z", "0", "9", "_", "x", "Q", "7">>

Suffixes == UNION {[1..n -> InputChars] : n \in 0..MaxSuffix}

\* what the user may type: short strings, and the same strings after the
\* eight characters of Stem, so that names of NameLimit and more characters
\* occur
Inputs == {p \o s : p \in {<<>>, Stem}, s \in Suffixes}

ResultsFolders == {<< <<"results">> >>, << <<"data">>, <<"results">> >>}

FInit ==
    /\ fpc = "idle"
    /\ results_folder \in ResultsFolders
    /\ edf_fname = <<"T", "E", "S", "T">>
    /\ printed = <<>>
    /\ dirs \in {{}, Prefixes(results_folder)}
    /\ clock = StartMinute
    /\ made = <<>>
    /\ fret = <<>>
    /\ prevret = <<>>
    /\ dirs0 = dirs
    /\ t0 = clock
    /\ ncalls = 0
    /\ nprompts = 0

\* init_files(results_folder) is called: line 95
InitFilesCall ==
    /\ fpc \in {"idle", "returned"}
    /\ ncalls < MaxCalls
    /\ fpc' = "prompt"
    /\ edf_fname' = <<"T", "E", "S", "T">>
    /\ printed' = <<>>
    /\ made' = <<>>
    /\ dirs0' = dirs
    /\ prevret' = fret
    /\ ncalls' = ncalls + 1
    /\ nprompts' = 0
    /\ UNCHANGED <<results_folder, dirs, clock, fret, t0, evars>>

\* one round of the prompt loop on a rejected input: lines 98-111
PromptReject(s) ==
    /\ fpc = "prompt"
    /\ nprompts < MaxPrompts
    /\ name_check(derive_name(s)) # None
    /\ edf_fname' = derive_name(s)
    /\ printed' = Append(printed, name_check(derive_name(s)))
    /\ nprompts' = nprompts + 1
    /\ UNCHANGED <<fpc, results_folder, dirs, clock, made, fret, prevret,
                   dirs0, t0, ncalls, evars>>

\* the last round of the prompt loop and the rest of init_files: 98-134
PromptAccept(s) ==
    /\ fpc = "prompt"
    /\ name_check(derive_name(s)) = None
    /\ LET name == derive_name(s)
           r == create_folders(results_folder, name, clock, dirs)
       IN  /\ edf_fname' = name
           /\ dirs' = r.dirs
           /\ made' = r.made
           /\ t0' = clock
           /\ fpc' = IF r.ok THEN "returned" ELSE "raised"
           /\ fret' = IF r.ok THEN <<name, session_identifier(name, clock)>>
                      ELSE fret
    /\ nprompts' = nprompts + 1
    /\ UNCHANGED <<results_folder, printed, clock, prevret, dirs0, ncalls,
                   evars>>

\* the wall clock moves on by a minute
TickMinute ==
    /\ clock < StartMinute + MaxTicks
    /\ clock' = clock + 1
    /\ UNCHANGED <<fpc, results_folder, edf_fname, printed, dirs, made, fret,
                   prevret, dirs0, t0, ncalls, nprompts, evars>>

FNext ==
    \/ InitFilesCall
    \/ \E s \in Inputs : PromptReject(s)
    \/ \E s \in Inputs : PromptAccept(s)
    \/ TickMinute

(***************************************************************************)
(* The eyeLink facade.                                                     *)
(*                                                                         *)
(* A call the facade issues is an entry [call, arg, by]: the function      *)
(* called, its argument (or, for a query, the answer it gave) as text, and *)
(* the facade method whose body issued it.  A RuntimeError raised by a     *)
(* vendor call is the entry "except" that follows the call.                *)
(***************************************************************************)

MaxQueue == 2       \* events waiting in pygame's queue
MaxTime == 2        \* milliseconds the pygame clock advances
MaxDrift == 2       \* iterations of driftCheck's loop in one call
MaxInfo == 2        \* messages in trial_info

\* values of the vendor's pylink module, as the facade uses them
TRIAL_OK == 0
TRIAL_ERROR == -1
ABORT_EXPT == 3
ESC_KEY == 27

\* sys.maxsize, the default duration of wait_key: no clock value reaches it
maxsize == 2147483647

COLOURS ==
    << [name |-> "BLACK",       rgb |-> <<0, 0, 0>>,       host |-> 0],
       [name |-> "BLUE",        rgb |-> <<50, 50, 255>>,   host |-> 1],
       [name |-> "GREEN",       rgb |-> <<50, 128, 50>>,   host |-> 2],
       [name |-> "CYAN",        rgb |-> <<50, 255, 255>>,  host |-> 3],
       [name |-> "RED",         rgb |-> <<255, 50, 50>>,   host |-> 4],
       [name |-> "VIOLET",      rgb |-> <<238, 130, 238>>, host |-> 5],
       [name |-> "BROWN",       rgb |-> <<139, 69, 19>>,   host |-> 6],
       [name |-> "LIGHT GREY",  rgb |-> <<211, 211, 211>>, host |-> 7],
       [name |-> "GREY",        rgb |-> <<128, 128, 128>>, host |-> 8],
       [name |-> "LIGHT BLUE",  rgb |-> <<135, 206, 250>>, host |-> 9],
       [name |-> "LIME",        rgb |-> <<50, 255, 50>>,   host |-> 10],
       [name |-> "LIGHT CYAN",  rgb |-> <<200, 255, 255>>, host |-> 11],
       [name |-> "PINK",        rgb |-> <<255, 192, 203>>, host |-> 12],
       [name |-> "MAGENTA",     rgb |-> <<255, 50, 255>>,  host |-> 13],
       [name |-> "YELLOW",      rgb |-> <<255, 255, 50>>,  host |-> 14],
       [name |-> "WHITE",       rgb |-> <<255, 255, 255>>, host |-> 15] >>

BLACK == COLOURS[1]
GREY == COLOURS[9]
RED == COLOURS[5]

\* a variant for comparison: a colour that counts as found when its host
\* code is not 0
findColour_nonzero_host(name) ==
    LET hits == {i \in 1..Len(COLOURS) :
                    COLOURS[i].name = name /\ COLOURS[i].host # 0}
    IN  IF hits = {} THEN [found |-> FALSE, host |-> -1]
        ELSE [found |-> TRUE, host |-> COLOURS[SetMin(hits)].host]

\* findColour(name): the first colour of that name; found is FALSE for the
\* code's None.  A value that is no string (BLACK.host, an int) is passed as
\* its text: it equals no colour name either way.
findColour(name) ==
    LET hits == {i \in 1..Len(COLOURS) : COLOURS[i].name = name}
    IN  IF hits = {} THEN [found |-> FALSE, host |-> -1]
        ELSE [found |-> TRUE, host |-> COLOURS[SetMin(hits)].host]

E(call, arg, by) == [call |-> call, arg |-> arg, by |-> by]

RgbStr(rgb) ==
    ToString(rgb[1]) \o " " \o ToString(rgb[2]) \o " " \o ToString(rgb[3])

\* Python's truth value of an int
Truthy(v) == v # 0

\* clearHostScreen(colour)
clearHostScreen(colour) ==
    LET col == findColour(colour)
    IN  IF col.found
        THEN <<E("sendCommand", "clear_screen " \o ToString(col.host),
                 "clearHostScreen")>>
        ELSE <<E("print", "No colour was found with name '" \o colour \o "'",
                 "clearHostScreen")>>

\* drawHostLine(pos1, pos2, colour)
drawHostLine(pos1, pos2, colour) ==
    LET col == findColour(colour)
    IN  IF col.found
        THEN <<E("sendCommand",
                 "draw_line " \o ToString(pos1[1]) \o " " \o ToString(pos1[2])
                 \o " " \o ToString(pos2[1]) \o " " \o ToString(pos2[2])
                 \o " " \o ToString(col.host),
                 "drawHostLine")>>
        ELSE <<E("print", "No colour was found with name '" \o colour \o "'",
                 "drawHostLine")>>

\* clearDVScreen(colour)
clearDVScreen(rgb) ==
    <<E("sendMessage", "blank_screen", "clearDVScreen"),
      E("sendMessage", "!V CLEAR " \o RgbStr(rgb), "clearDVScreen")>>

\* window.show_message(message, fg, bg)
show_message(bg) ==
    <<E("fill", RgbStr(bg), "show_message"),
      E("flip", "", "show_message")>>

\* window.abort(bg_colour): the calls it issues when isRecording() reports r
abort(dummy, r, bg) ==
    (IF ~dummy
     THEN <<E("getEYELINK", "", "abort"),
            E("isRecording", ToString(r), "abort")>>
          \o (IF Truthy(r)
              THEN <<E("pumpDelay", "100", "abort"),
                     E("stopRecording", "", "abort")>>
              ELSE <<>>)
          \o clearDVScreen(bg)
          \o <<E("sendMessage", "TRIAL_RESULT " \o ToString(TRIAL_ERROR),
                 "abort")>>
     ELSE <<>>)
    \o <<E("fill", RgbStr(bg), "abort"), E("flip", "", "abort")>>

\* what isRecording() reports after et.stopRecording(): no recording runs
stopped(r) == IF r = TRIAL_OK THEN TRIAL_ERROR ELSE r

\* what isRecording() reports once abort has run
abort_rec(dummy, r) == IF ~dummy /\ Truthy(r) THEN stopped(r) ELSE r

\* a variant for comparison: terminate with close() inside the try, after receiveDataFile
terminate_close_in_try(dummy, connected, r, raises) ==
    (IF ~dummy
     THEN <<E("getEYELINK", "", "terminate"),
            E("isConnected", ToString(connected), "terminate")>>
          \o (IF connected
              THEN <<E("isRecording", ToString(r), "terminate")>>
                   \o (IF r = TRIAL_OK THEN abort(dummy, r, GREY.rgb)
                       ELSE <<>>)
                   \o <<E("setOfflineMode", "", "terminate")>>
                   \o clearHostScreen(ToString(BLACK.host))
                   \o <<E("msecDelay", "500", "terminate"),
                        E("closeDataFile", "", "terminate")>>
                   \o show_message(GREY.rgb)
                   \o <<E("receiveDataFile", "TEST", "terminate")>>
                   \o (IF raises
                       THEN <<E("except", "receiveDataFile", "terminate"),
                              E("print", "ERROR:", "terminate")>>
                       ELSE <<E("close", "", "terminate")>>)
              ELSE <<>>)
     ELSE <<>>)
    \o <<E("pygame.quit", "", "terminate"), E("sys.exit", "", "terminate")>>

\* terminate(fg, bg): the calls it issues; connected and r are what
\* isConnected() and isRecording() report, raises whether receiveDataFile
\* raises RuntimeError
terminate(dummy, connected, r, raises) ==
    (IF ~dummy
     THEN <<E("getEYELINK", "", "terminate"),
            E("isConnected", ToString(connected), "terminate")>>
          \o (IF connected
              THEN <<E("isRecording", ToString(r), "terminate")>>
                   \o (IF r = TRIAL_OK THEN abort(dummy, r, GREY.rgb)
                       ELSE <<>>)
                   \o <<E("setOfflineMode", "", "terminate")>>
                   \o clearHostScreen(ToString(BLACK.host))
                   \o <<E("msecDelay", "500", "terminate"),
                        E("closeDataFile", "", "terminate")>>
                   \o show_message(GREY.rgb)
                   \o <<E("receiveDataFile", "TEST", "terminate")>>
                   \o (IF raises
                       THEN <<E("except", "receiveDataFile", "terminate"),
                              E("print", "ERROR:", "terminate")>>
                       ELSE <<>>)
                   \o <<E("close", "", "terminate")>>
              ELSE <<>>)
     ELSE <<>>)
    \o <<E("pygame.quit", "", "terminate"), E("sys.exit", "", "terminate")>>


\* addresses are written with their quotes: 'None' is the string that asks
\* for dummy mode, None the value EyeLink() is then given
Default == "'Default'"
NoTracker == "'None'"

\* a variant for comparison: connect ignoring its argument
effective_address_stored(stored, arg) == stored

\* if address != "Default": self.address = address
effective_address(stored, arg) == IF arg # Default THEN arg ELSE stored

\* connect(): addr is self.address after the line above; the calls it
\* issues, whether it ended in sys.exit(), and the dummy mode it set.
\* elRaises, odRaises: EyeLink(address), openDataFile raise RuntimeError;
\* isConn: what isConnected() then reports
connect(addr, elRaises, odRaises, isConn) ==
    LET dummy == (addr = NoTracker)
        quit == <<E("pygame.quit", "", "connect"),
                  E("sys.exit", "", "connect")>>
        link == <<E("EyeLink", IF dummy THEN None ELSE addr,
                    "connect")>>
        open == <<E("openDataFile", "TEST" \o ".EDF", "connect")>>
    IN  IF ~dummy /\ elRaises
        THEN [exit |-> TRUE, dm |-> FALSE, linked |-> FALSE,
              calls |-> link \o <<E("except", "EyeLink", "connect"),
                                  E("print", "ERROR:", "connect")>> \o quit]
        ELSE IF odRaises
        THEN [exit |-> TRUE, dm |-> dummy, linked |-> FALSE,
              calls |-> link \o open
                        \o <<E("except", "openDataFile", "connect"),
                             E("print", "ERROR:", "connect"),
                             E("isConnected", ToString(isConn), "connect")>>
                        \o (IF isConn THEN <<E("close", "", "connect")>>
                            ELSE <<>>)
                        \o quit]
        ELSE [exit |-> FALSE, dm |-> dummy, linked |-> ~dummy,
              calls |-> link \o open
                        \o <<E("sendCommand", "add_file_preamble_text",
                               "connect")>>]

\* configure(sample_rate, calibration_type); ver is the tracker's version
configure(dummy, ver, sample_rate, calibration_type) ==
    LET v == IF dummy THEN 0 ELSE ver
    IN  <<E("setOfflineMode", "", "configure")>>
        \o (IF ~dummy
            THEN <<E("getTrackerVersionString", ToString(ver), "configure"),
                   E("print", "Running experiment on", "configure")>>
            ELSE <<>>)
        \o <<E("sendCommand",
               "file_event_filter = LEFT,RIGHT,FIXATION,SACCADE,BLINK,MESSAGE,BUTTON,INPUT",
               "configure"),
             E("sendCommand",
               IF v > 3
               THEN "file_sample_data = LEFT,RIGHT,GAZE,HREF,RAW,AREA,HTARGET,GAZERES,BUTTON,STATUS,INPUT"
               ELSE "file_sample_data = LEFT,RIGHT,GAZE,HREF,RAW,AREA,GAZERES,BUTTON,STATUS,INPUT",
               "configure"),
             E("sendCommand",
               "link_event_filter = LEFT,RIGHT,FIXATION,SACCADE,BLINK,BUTTON,FIXUPDATE,INPUT",
               "configure"),
             E("sendCommand",
               IF v > 3
               THEN "link_sample_data = LEFT,RIGHT,GAZE,GAZERES,AREA,HTARGET,STATUS,INPUT"
               ELSE "link_sample_data = LEFT,RIGHT,GAZE,GAZERES,AREA,STATUS,INPUT",
               "configure")>>
        \o (IF sample_rate # 0
            THEN <<E("sendCommand", "sample_rate " \o ToString(sample_rate),
                     "configure")>>
            ELSE <<>>)
        \o <<E("sendCommand", "calibration_type = " \o calibration_type,
               "configure"),
             E("sendCommand", "button_function 5 'accept_target_fixation'",
               "configure")>>

\* a variant for comparison: __init__ with configure() ahead of connect()
init_configure_first(addr, elRaises, odRaises, isConn, ver) ==
    LET c == connect(addr, elRaises, odRaises, isConn)
    IN  IF c.exit THEN c.calls
        ELSE configure(c.dm, ver, 0, "HV9") \o c.calls

\* eyeLink.__init__: connect(), then configure()
init(addr, elRaises, odRaises, isConn, ver) ==
    LET c == connect(addr, elRaises, odRaises, isConn)
    IN  IF c.exit THEN c.calls
        ELSE c.calls \o configure(c.dm, ver, 0, "HV9")

\* init_calibration(...): the window, then the calibration graphics
init_calibration(bg, target, picRaises, sound) ==
    <<E("set_mode", "800 600", "window"),
      E("set_visible", "False", "init_calibration"),
      E("sendCommand", "screen_pixel_coords = 0 0 799 599",
        "init_calibration"),
      E("sendMessage", "DISPLAY_COORDS  0 0 799 599", "init_calibration"),
      E("CalibrationGraphics", "", "init_calibration"),
      E("setCalibrationColors", RgbStr(bg), "init_calibration"),
      E("setTargetType", target, "init_calibration")>>
    \o (IF target = "picture"
        THEN <<E("setPictureTarget", "", "init_calibration")>>
             \o (IF picRaises
                 THEN <<E("except", "setPictureTarget", "init_calibration"),
                        E("print", "did not lead to a valid calibration target",
                          "init_calibration")>>
                 ELSE <<>>)
        ELSE <<>>)
    \o <<E("setTargetSize", "24", "init_calibration"),
         E("setCalibrationSounds", IF sound THEN "" ELSE "off",
           "init_calibration"),
         E("openGraphicsEx", "", "init_calibration")>>

\* a variant for comparison: calibrate with a handler that prints nothing
calibrate_setup_silent(dummy, raises) ==
    IF dummy THEN <<>>
    ELSE <<E("doTrackerSetup", "", "calibrate")>>
         \o (IF raises
             THEN <<E("except", "doTrackerSetup", "calibrate"),
                    E("exitCalibration", "", "calibrate")>>
             ELSE <<>>)

\* the part of calibrate() after wait_key returned
calibrate_setup(dummy, raises) ==
    IF dummy THEN <<>>
    ELSE <<E("doTrackerSetup", "", "calibrate")>>
         \o (IF raises
             THEN <<E("except", "doTrackerSetup", "calibrate"),
                    E("print", "ERROR:", "calibrate"),
                    E("exitCalibration", "", "calibrate")>>
             ELSE <<>>)

\* a variant for comparison: record without the return in its handler
record_falls_through(dummy, r, raises) ==
    [calls |-> <<E("setOfflineMode", "", "record"),
                 E("startRecording", "1,1,1,1", "record")>>
               \o (IF raises
                   THEN <<E("except", "startRecording", "record"),
                          E("print", "ERROR:", "record")>>
                        \o abort(dummy, r, GREY.rgb)
                   ELSE <<>>)
               \o <<E("pumpDelay", "100", "record")>>,
     ret |-> IF raises THEN ToString(TRIAL_ERROR) ELSE None]

\* record(): the calls it issues and what it returns; r is what
\* isRecording() reports when window.abort asks
record(dummy, r, raises) ==
    IF raises
    THEN [calls |-> <<E("setOfflineMode", "", "record"),
                      E("startRecording", "1,1,1,1", "record"),
                      E("except", "startRecording", "record"),
                      E("print", "ERROR:", "record")>>
                    \o abort(dummy, r, GREY.rgb),
          ret |-> ToString(TRIAL_ERROR)]
    ELSE [calls |-> <<E("setOfflineMode", "", "record"),
                      E("startRecording", "1,1,1,1", "record"),
                      E("pumpDelay", "100", "record")>>,
          ret |-> None]

\* the messages of trial_info, each followed by msecDelay(4)
RECURSIVE info_messages(_)
info_messages(trial_info) ==
    IF trial_info = <<>> THEN <<>>
    ELSE <<E("sendMessage", Head(trial_info), "stopRecording"),
           E("msecDelay", "4", "stopRecording")>>
         \o info_messages(Tail(trial_info))

\* f"!V TRIAL_VAR_DATA {trial_labels}"
var_data(labels) ==
    E("sendMessage", "!V TRIAL_VAR_DATA " \o ToString(labels),
      "stopRecording")

\* a variant for comparison: stopRecording testing trial_labels against None only
stopRecording_labels_not_none(trial_info, given, labels) ==
    <<E("ias_file.close", "", "stopRecording"),
      E("pumpDelay", "100", "stopRecording"),
      E("stopRecording", "", "stopRecording")>>
    \o info_messages(trial_info)
    \o (IF given THEN <<var_data(labels)>> ELSE <<>>)
    \o <<E("sendMessage", "TRIAL_RESULT " \o ToString(TRIAL_OK),
           "stopRecording")>>

\* stopRecording(trial_info, trial_labels); given is FALSE for the default
\* trial_labels=None
stopRecording(trial_info, given, labels) ==
    <<E("ias_file.close", "", "stopRecording"),
      E("pumpDelay", "100", "stopRecording"),
      E("stopRecording", "", "stopRecording")>>
    \o info_messages(trial_info)
    \o (IF given /\ labels # <<>> THEN <<var_data(labels)>> ELSE <<>>)
    \o <<E("sendMessage", "TRIAL_RESULT " \o ToString(TRIAL_OK),
           "stopRecording")>>

\* self.folders["aoi"] as __init__ sets it for the session id
AoiFolder == "results/id/aoi"

\* os.path.join(self.folders["aoi"], f"IA_{trial_index}.ias")
ias_file_path(trial_index) ==
    AoiFolder \o "/IA_" \o ToString(trial_index) \o ".ias"

\* create_ia(trial_index, msg, newTrial)
create_ia(trial_index, msg, newTrial) ==
    (IF newTrial
     THEN <<E("sendMessage", "!V IAREA FILE " \o ias_file_path(trial_index),
              "create_ia"),
            E("open", ias_file_path(trial_index) \o " w", "create_ia")>>
     ELSE <<>>)
    \o <<E("ias_file.write", msg, "create_ia")>>

\* pygame key constants and pygame.key.name
K_RETURN == "K_RETURN"
K_ESCAPE == "K_ESCAPE"
K_a == "K_a"

key_name(k) ==
    CASE k = K_RETURN -> "return"
      [] k = K_ESCAPE -> "escape"
      [] k = K_a -> "a"

EventKinds ==
    {[type |-> "KEYDOWN", key |-> K_RETURN],
     [type |-> "KEYDOWN", key |-> K_ESCAPE],
     [type |-> "KEYUP", key |-> K_a]}

KeyLists == {{K_RETURN}, {K_a, K_ESCAPE}}

Durations == {1, maxsize}

\* a variant for comparison: the ESCAPE test as an elif of the key_list test
RECURSIVE wait_scan_escape_elif(_, _, _, _, _)
wait_scan_escape_elif(evs, key_list, t_start, now, st) ==
    IF evs = <<>> THEN st
    ELSE LET ev == Head(evs)
         IN  IF ev.type = "KEYDOWN" /\ ev.key \in key_list
             THEN wait_scan_escape_elif(
                      Tail(evs), key_list, t_start, now,
                      [st EXCEPT !.resp = <<key_name(ev.key), t_start, now>>,
                                 !.got = TRUE])
             ELSE IF ev.type = "KEYDOWN" /\ ev.key = K_ESCAPE
                  THEN [st EXCEPT !.esc = TRUE]
                  ELSE wait_scan_escape_elif(Tail(evs), key_list, t_start,
                                             now, st)

\* the for loop of wait_key over one batch of events: st is [resp, got, esc],
\* esc set when terminate() was called, which ends the loop and the process
RECURSIVE wait_scan(_, _, _, _, _)
wait_scan(evs, key_list, t_start, now, st) ==
    IF evs = <<>> THEN st
    ELSE LET ev == Head(evs)
             st1 == IF ev.type = "KEYDOWN" /\ ev.key \in key_list
                    THEN [st EXCEPT !.resp = <<key_name(ev.key), t_start, now>>,
                                    !.got = TRUE]
                    ELSE st
         IN  IF ev.type = "KEYDOWN" /\ ev.key = K_ESCAPE
             THEN [st1 EXCEPT !.esc = TRUE]
             ELSE wait_scan(Tail(evs), key_list, t_start, now, st1)

\* a variant for comparison: wait_key without pygame.event.clear()
event_clear_missing(q) == q

\* pygame.event.clear() at the start of wait_key
event_clear(q) == <<>>

\* the end of wait_key: the screen is cleared
wait_key_end(bg) ==
    <<E("fill", RgbStr(bg), "wait_key"), E("flip", "", "wait_key")>>

\* one iteration of driftCheck's loop past the connection test; outcome is
\* "raise", or the code doDriftCorrect returned
drift_iteration(outcome) ==
    <<E("fill", RgbStr(GREY.rgb), "driftCheck"),
      E("circle", RgbStr(RED.rgb), "driftCheck"),
      E("flip", "", "driftCheck"),
      E("doDriftCorrect", outcome, "driftCheck")>>
    \o (IF outcome = "raise"
        THEN <<E("except", "doDriftCorrect", "driftCheck")>>
        ELSE <<>>)

DriftOutcomes == {"raise", ToString(ESC_KEY), ToString(0)}

(***************************************************************************)
(* The interest area file.  open(path, "w") makes the file empty; write()  *)
(* adds to the buffer of the file object; close() writes the buffer to the *)
(* file from the object's own position, which is 0 for an object that was  *)
(* never flushed, and leaves what lies beyond it.  An object that is no    *)
(* longer referenced is closed at once (reference counting).              *)
(***************************************************************************)
MaxIaLen == 3
TrialIndexes == {1, 2}
IaMsgs == {<<"a">>, <<"b", "c">>}

\* the characters of a msg as the text that is written
RECURSIVE Text(_)
Text(cs) == IF cs = <<>> THEN "" ELSE Head(cs) \o Text(Tail(cs))

\* the content of a file after buf was written from position 0
flush(content, buf) ==
    buf \o SubSeq(content, Len(buf) + 1, Len(content))

\* self.ias_file = open(path, "w") for trial index i, with the object held
\* before (path 0: none, or closed): the file is emptied, then the old object
\* is dropped and closed
open_w(disk, i, old_path, old_buf) ==
    LET emptied == [disk EXCEPT ![i] = <<>>]
    IN  IF old_path = 0 THEN emptied
        ELSE [emptied EXCEPT ![old_path] = flush(emptied[old_path], old_buf)]

\* self.ias_file.close()
close_ias(disk, path, buf) ==
    IF path = 0 THEN disk ELSE [disk EXCEPT ![path] = flush(disk[path], buf)]

\* a variant for comparison: checkDisconnect testing for TRIAL_ERROR only
checkDisconnect_trial_error_only(dummy, r, bg) ==
    IF r = TRIAL_ERROR
    THEN [calls |-> <<E("isRecording", ToString(r), "checkDisconnect"),
                      E("sendMessage", "tracker_disconnected",
                        "checkDisconnect")>>
                    \o abort(dummy, r, bg),
          disconnected |-> TRUE]
    ELSE [calls |-> <<E("isRecording", ToString(r), "checkDisconnect")>>,
          disconnected |-> FALSE]

\* checkDisconnect(): the calls it issues and whether it found the tracker
\* gone; r is what isRecording() reports.  'error is not pylink.TRIAL_OK'
\* compares small integers, for which identity is equality
checkDisconnect(dummy, r, bg) ==
    IF r # TRIAL_OK
    THEN [calls |-> <<E("isRecording", ToString(r), "checkDisconnect"),
                      E("sendMessage", "tracker_disconnected",
                        "checkDisconnect")>>
                    \o abort(dummy, r, bg),
          disconnected |-> TRUE]
    ELSE [calls |-> <<E("isRecording", ToString(r), "checkDisconnect")>>,
          disconnected |-> FALSE]

(***************************************************************************)
(* pylink_c: the declarations of the library's functions and the wrappers. *)
(* A value is a pair of its Python type and its text.                      *)
(***************************************************************************)
Val(t, v) == [t |-> t, v |-> v]

NoneVal == Val("NoneType", "")

\* lib.<name>.argtypes (their number) and lib.<name>.restype
Declared ==
    << [lib |-> "EyeLinkCBind", nargs |-> 0, restype |-> "c_void_p"],
       [lib |-> "msecDelay", nargs |-> 1, restype |-> "None"],
       [lib |-> "openCustomGraphicsInternal", nargs |-> 0,
        restype |-> "c_void_p"],
       [lib |-> "getDisplayInformation", nargs |-> 1, restype |-> "c_int"],
       [lib |-> "inRealTimeMode", nargs |-> 1, restype |-> "c_int"],
       [lib |-> "flushGetkeyQueue", nargs |-> 0, restype |-> "None"],
       [lib |-> "beginRealTimeMode", nargs |-> 1, restype |-> "c_int"],
       [lib |-> "currentTime", nargs |-> 0, restype |-> "c_int"],
       [lib |-> "currentUsec", nargs |-> 0, restype |-> "c_int"],
       [lib |-> "endRealTimeMode", nargs |-> 0, restype |-> "c_int"],
       [lib |-> "pumpDelay", nargs |-> 1, restype |-> "None"],
       [lib |-> "alert", nargs |-> 1, restype |-> "None"],
       [lib |-> "enableExtendedRealtime", nargs |-> 1, restype |-> "c_int"],
       [lib |-> "getLastError", nargs |-> 0, restype |-> "c_char_p"],
       [lib |-> "enablePCRSample", nargs |-> 1, restype |-> "c_int"],
       [lib |-> "enableUTF8EyeLinkMessages", nargs |-> 1,
        restype |-> "c_int"],
       [lib |-> "bitmapSave", nargs |-> 1, restype |-> "c_int"],
       [lib |-> "sendMessageToFile", nargs |-> 1, restype |-> "c_int"],
       [lib |-> "openMessageFile", nargs |-> 1, restype |-> "c_int"],
       [lib |-> "closeMessageFile", nargs |-> 0, restype |-> "c_int"],
       [lib |-> "request_cross_hair_draw", nargs |-> 0,
        restype |-> "c_int"] >>

declaration(lib) ==
    Declared[CHOOSE i \in 1..Len(Declared) : Declared[i].lib = lib]

W(name, lib, params, conv, returns, post) ==
    [name |-> name, lib |-> lib, params |-> params, conv |-> conv,
     returns |-> returns, post |-> post]

\* the wrappers in the order of the file: the library function called, the
\* number of parameters, what is done to the argument, whether the result
\* is returned, and what is done to it
Wrappers ==
    << W("eye_link_c_bind", "EyeLinkCBind", 0, "asis", TRUE, "asis"),
       W("msec_delay", "msecDelay", 1, "asis", FALSE, "asis"),
       W("open_custom_graphics_internal", "openCustomGraphicsInternal", 0,
         "asis", TRUE, "asis"),
       W("get_display_information", "getDisplayInformation", 1, "byref",
         TRUE, "asis"),
       W("in_real_time_mode", "inRealTimeMode", 1, "asis", TRUE, "asis"),
       W("flush_getkey_queue", "flushGetkeyQueue", 0, "asis", FALSE, "asis"),
       W("begin_real_time_mode", "beginRealTimeMode", 1, "asis", TRUE,
         "asis"),
       W("current_time", "currentTime", 0, "asis", TRUE, "asis"),
       W("current_usec", "currentUsec", 0, "asis", TRUE, "asis"),
       W("end_real_time_mode", "endRealTimeMode", 0, "asis", TRUE, "asis"),
       W("pump_delay", "pumpDelay", 1, "asis", FALSE, "asis"),
       W("alert", "alert", 1, "encode", FALSE, "asis"),
       W("enable_extended_realtime", "enableExtendedRealtime", 1, "asis",
         TRUE, "asis"),
       W("get_last_error", "getLastError", 0, "asis", TRUE, "decode"),
       W("enable_pcr_sample", "enablePCRSample", 1, "asis", TRUE, "asis"),
       W("enable_utf8_eye_link_messages", "enableUTF8EyeLinkMessages", 1,
         "asis", TRUE, "asis"),
       W("open_custom_graphics_internal", "openCustomGraphicsInternal", 0,
         "asis", TRUE, "asis"),
       W("bitmap_save", "bitmapSave", 1, "encode", TRUE, "asis"),
       W("send_message_to_file", "sendMessageToFile", 1, "encode", TRUE,
         "asis"),
       W("open_message_file", "openMessageFile", 1, "encode", TRUE, "asis"),
       W("close_message_file", "closeMessageFile", 0, "asis", TRUE, "asis"),
       W("request_cross_hair_draw", "request_cross_hair_draw", 1, "asis",
         TRUE, "asis") >>

\* the function a name is bound to once the module is loaded: the last def
\* of that name
bound(name) ==
    LET defs == {i \in 1..Len(Wrappers) : Wrappers[i].name = name}
    IN  Wrappers[CHOOSE i \in defs : \A j \in defs : j <= i]

WrapperNames == {Wrappers[i].name : i \in 1..Len(Wrappers)}

\* str.encode('utf-8'), bytes.decode('utf-8'), ctypes.byref
encode(x) == Val("bytes", x.v)

decode(x) ==
    IF x.t = "bytes" THEN Val("str", x.v) ELSE Val("raised", "AttributeError")

byref(x) == Val("byref", x.v)

convert(conv, x) ==
    CASE conv = "encode" -> encode(x)
      [] conv = "byref" -> byref(x)
      [] OTHER -> x

\* what the library function can hand back, by its restype; a NULL pointer
\* comes back as None
Results(restype) ==
    CASE restype = "None" -> {NoneVal}
      [] restype = "c_int" -> {Val("int", "0"), Val("int", "1"),
                               Val("int", "-1")}
      [] restype = "c_char_p" -> {Val("bytes", "no error"), NoneVal}
      [] OTHER -> {Val("int", "140233"), NoneVal}

\* the arguments a wrapper is called with, of the type its body expects
ArgsFor(w) ==
    IF w.params = 0 THEN {<<>>}
    ELSE CASE w.conv = "encode" ->
                  {<<Val("str", "a.bmp")>>, <<Val("str", "msg")>>,
                   <<Val("str", "")>>}
           [] w.conv = "byref" -> {<<Val("c_int", "0")>>}
           [] OTHER ->
                  {<<Val("int", "0")>>, <<Val("int", "1")>>,
                   <<Val("int", "100")>>}

\* a call of wrapper w: the library function it calls, what it passes, and
\* what it returns when the function hands back result.  A function of a
\* CDLL takes more arguments than its argtypes list
wrapper_call(w, args, result) ==
    [fn |-> w.name,
     args |-> args,
     lib |-> w.lib,
     passed |-> [i \in 1..Len(args) |-> convert(w.conv, args[i])],
     result |-> result,
     ret |-> IF ~w.returns THEN NoneVal
             ELSE IF w.post = "decode" THEN decode(result)
             ELSE result]

NoBind == [fn |-> ""]

(***************************************************************************)
(* The run of a script that drives the facade.  Script is the session of   *)
(* the usage recipe; create_ia, which stopRecording needs for its IAS      *)
(* file, does not leave it.  A facade method dereferences self.win,        *)
(* self.genv and self.ias_file, which init_calibration and                 *)
(* create_ia(newTrial=True) assign: the script calls them first.           *)
(*                                                                         *)
(* The keyboard, the clock and breakPressed() are read by wait_key and     *)
(* driftCheck only: what happened to them before such a call is drawn when *)
(* the call is made (the events already queued, the clock's value, break   *)
(* already pressed), and they are followed while the call runs.            *)
(***************************************************************************)
Script ==
    <<"init_calibration", "calibrate", "record", "stopRecording",
      "terminate">>

Neutral == {"create_ia"}

NextStep(name) ==
    IF name \in Neutral THEN step
    ELSE IF step >= 0 /\ step < Len(Script) /\ Script[step + 1] = name
         THEN step + 1
         ELSE -1

\* the calls that reach the tracker's data file, mode and recording
TrackerCalls ==
    {"openDataFile", "setOfflineMode", "doTrackerSetup", "startRecording",
     "stopRecording", "closeDataFile", "receiveDataFile", "close"}

IsTrackerCall(e) ==
    \/ e.call \in TrackerCalls
    \/ e.call = "sendCommand" /\ e.by = "configure"

Brief(es) ==
    LET kept == SelectSeq(es, IsTrackerCall)
    IN  [i \in 1..Len(kept) |-> <<kept[i].call, kept[i].by>>]

\* the calls es are issued, by a method that starts (start) or goes on
Calls(start, es, st) ==
    /\ seg' = (IF start THEN es ELSE seg \o es)
    /\ step' = st
    /\ log' = IF st >= 0 THEN log \o Brief(es) ELSE <<>>
    /\ UNCHANGED <<fvars, bind>>

\* the same, by a method whose file contents are not followed
Put(start, es, st) == Calls(start, es, st) /\ UNCHANGED ivars

Addresses == {NoTracker, "'100.1.1.1'"}
ConnectArgs == Addresses \cup {Default}
Versions == {3, 5}
Backgrounds == {GREY.rgb, COLOURS[16].rgb}
Targets == {"circle", "picture"}
Messages == {"m1", "m2"}
TrialInfos == UNION {[1..n -> Messages] : n \in 0..MaxInfo}
\* trial_labels: the default None (given FALSE), an empty list, a list
LabelArgs ==
    {[given |-> FALSE, labels |-> <<>>], [given |-> TRUE, labels |-> <<>>],
     [given |-> TRUE, labels |-> <<"l">>]}
\* what the queue may hold when wait_key is called: nothing, or an event
Queues == {<<>>} \cup {<<ev>> : ev \in EventKinds}
StartTicks == {0, 1}

NoWait == [key_list |-> {}, duration |-> 0, t_start |-> 0, caller |-> ""]
NoResp == <<None, 0, -1>>

EInit ==
    /\ pc = "new"
    /\ address = ""
    /\ dm = FALSE
    /\ win = <<>>
    /\ ias_file = "unset"
    /\ conn = FALSE
    /\ rec = TRIAL_ERROR
    /\ brk = FALSE
    /\ queue = <<>>
    /\ ticks = 0
    /\ since = {}
    /\ wk = NoWait
    /\ resp = NoResp
    /\ op = [name |-> ""]
    /\ ret = "pending"
    /\ seg = <<>>
    /\ step = 0
    /\ log = <<>>
    /\ ndrift = 0
    /\ error = "unset"
    /\ ias_path = 0
    /\ ias_buf = <<>>
    /\ ias_disk = [i \in TrialIndexes |-> <<>>]
    /\ ias_msgs = <<>>
    /\ bind = NoBind

Ready == pc = "idle" /\ win # <<>>

\* no wait_key runs: its locals are gone, keyboard and clock are not read
NoKeys ==
    /\ queue' = <<>>
    /\ ticks' = 0
    /\ since' = {}
    /\ wk' = NoWait
    /\ resp' = NoResp

\* eyeLink(id, address): __init__
Construct(addr, elRaises, odRaises, isConn, ver) ==
    /\ pc = "new"
    /\ LET c == connect(effective_address(addr, Default), elRaises, odRaises,
                        isConn)
       IN  /\ pc' = IF c.exit THEN "exited" ELSE "idle"
           /\ address' = effective_address(addr, Default)
           /\ dm' = c.dm
           /\ conn' = c.linked
           /\ ret' = IF c.exit THEN "SystemExit" ELSE None
    /\ op' = [name |-> "__init__", arg |-> Default, stored |-> addr]
    /\ Put(TRUE, init(effective_address(addr, Default), elRaises, odRaises,
                      isConn, ver), 0)
    /\ UNCHANGED <<win, ias_file, rec, brk, queue, ticks, since, wk, resp,
                   ndrift, error>>

InitCalibration(bg, target, picRaises, sound) ==
    /\ pc = "idle"
    /\ win = <<>>
    /\ win' = bg
    /\ op' = [name |-> "init_calibration"]
    /\ ret' = None
    /\ Put(TRUE, init_calibration(bg, target, picRaises, sound),
           NextStep("init_calibration"))
    /\ UNCHANGED <<pc, address, dm, ias_file, conn, rec, brk, queue, ticks,
                   since, wk, resp, ndrift, error>>

\* the start of wait_key: cached events are cleared, the clock is read
WaitKeyBegin(key_list, duration, stale, now, caller) ==
    /\ pc' = "wait_key"
    /\ ret' = "pending"
    /\ queue' = event_clear(stale)
    /\ since' = {}
    /\ ticks' = now
    /\ wk' = [key_list |-> key_list, duration |-> duration, t_start |-> now,
              caller |-> caller]
    /\ resp' = <<None, now, -1>>
    /\ UNCHANGED <<address, dm, win, ias_file, conn, rec, brk, ndrift, error>>

\* calibrate(task_msg, task_key=...) up to the loop of its wait_key
CalibrateCall(task_key, stale, now) ==
    /\ Ready
    /\ op' = [name |-> "calibrate"]
    /\ WaitKeyBegin(task_key, maxsize, stale, now, "calibrate")
    /\ Put(TRUE, show_message(GREY.rgb), NextStep("calibrate"))

\* window.wait_key(key_list, duration) up to its loop
WaitKeyCall(key_list, duration, stale, now) ==
    /\ Ready
    /\ op' = [name |-> "wait_key"]
    /\ WaitKeyBegin(key_list, duration, stale, now, "user")
    /\ Put(TRUE, <<>>, NextStep("wait_key"))

Scanned ==
    wait_scan(queue, wk.key_list, wk.t_start, ticks,
              [resp |-> resp, got |-> FALSE, esc |-> FALSE])

TimedOut == (ticks - wk.t_start) > wk.duration

\* wait_key returns: the screen is cleared, the caller goes on; the queue
\* is no longer followed
WaitKeyEnd ==
    /\ queue' = <<>>
    /\ pc' = IF wk.caller = "calibrate" THEN "calibrate" ELSE "idle"
    /\ ret' = IF wk.caller = "calibrate" THEN "pending" ELSE "resp"
    /\ Put(FALSE, wait_key_end(win), step)
    /\ UNCHANGED <<address, dm, win, ias_file, conn, rec, brk, ticks, since,
                   wk, op, ndrift, error>>

\* an iteration of wait_key's loop that finds the time out
WaitKeyTimeout ==
    /\ pc = "wait_key"
    /\ TimedOut
    /\ UNCHANGED resp
    /\ WaitKeyEnd

\* an iteration that takes an allowed key and no ESCAPE
WaitKeyGot ==
    /\ pc = "wait_key"
    /\ ~TimedOut
    /\ Scanned.got /\ ~Scanned.esc
    /\ resp' = Scanned.resp
    /\ WaitKeyEnd

\* an iteration that finds nothing to act on
WaitKeyIgnore ==
    /\ pc = "wait_key"
    /\ ~TimedOut
    /\ queue # <<>>
    /\ ~Scanned.got /\ ~Scanned.esc
    /\ queue' = <<>>
    /\ UNCHANGED <<pc, address, dm, win, ias_file, conn, rec, brk, ticks,
                   since, wk, resp, op, ret, seg, step, log, ndrift,
                   error, fvars, ivars, bind>>

\* terminate() runs to sys.exit(), called by the method under way (start
\* FALSE) or by the script (start TRUE)
Terminated(start, pre, raises, st) ==
    /\ pc' = "exited"
    /\ ret' = "SystemExit"
    /\ conn' = IF ~dm /\ conn THEN FALSE ELSE conn
    /\ rec' = IF ~dm /\ conn /\ rec = TRIAL_OK THEN abort_rec(dm, rec) ELSE rec
    /\ Put(start, pre \o terminate(dm, conn, rec, raises), st)

\* an iteration that meets a KEYDOWN of ESCAPE
WaitKeyEscape(raises) ==
    /\ pc = "wait_key"
    /\ ~TimedOut
    /\ Scanned.esc
    /\ queue' = <<>>
    /\ resp' = Scanned.resp
    /\ Terminated(FALSE, <<>>, raises, step)
    /\ UNCHANGED <<address, dm, win, ias_file, brk, ticks, since, wk, op,
                   ndrift, error>>

\* calibrate() after wait_key returned
CalibrateSetup(raises) ==
    /\ pc = "calibrate"
    /\ pc' = "idle"
    /\ ret' = None
    /\ NoKeys
    /\ Put(FALSE, calibrate_setup(dm, raises), step)
    /\ UNCHANGED <<address, dm, win, ias_file, conn, rec, brk, op, ndrift,
                   error>>

\* driftCheck(dc_x, dc_y) up to its loop; pressed: break was pressed before
DriftCheckCall(pressed) ==
    /\ Ready
    /\ pc' = IF dm THEN "idle" ELSE "driftCheck"
    /\ ret' = IF dm THEN None ELSE "pending"
    /\ brk' = (~dm /\ pressed)
    /\ op' = [name |-> "driftCheck"]
    /\ ndrift' = 0
    /\ UNCHANGED error
    /\ NoKeys
    /\ Put(TRUE, <<>>, NextStep("driftCheck"))
    /\ UNCHANGED <<address, dm, win, ias_file, conn, rec>>

\* an iteration that finds the tracker gone or break pressed
DriftTerminate(raises) ==
    /\ pc = "driftCheck"
    /\ ~conn \/ brk
    /\ Terminated(FALSE,
                  <<E("isConnected", ToString(conn), "driftCheck")>>
                  \o (IF conn
                      THEN <<E("breakPressed", ToString(brk), "driftCheck")>>
                      ELSE <<>>),
                  raises, step)
    /\ UNCHANGED <<address, dm, win, ias_file, brk, queue, ticks, since, wk,
                   resp, op, ndrift, error>>

DriftDone(outcome) == outcome # "raise" /\ outcome # ToString(ESC_KEY)

\* an iteration that draws the target and runs the drift check
DriftIteration(outcome) ==
    /\ pc = "driftCheck"
    /\ conn /\ ~brk
    /\ DriftDone(outcome) \/ ndrift < MaxDrift
    /\ pc' = IF DriftDone(outcome) THEN "idle" ELSE pc
    /\ ret' = IF DriftDone(outcome) THEN None ELSE ret
    /\ ndrift' = ndrift + 1
    /\ UNCHANGED error
    /\ Put(FALSE,
           <<E("isConnected", ToString(conn), "driftCheck"),
             E("breakPressed", ToString(brk), "driftCheck")>>
           \o drift_iteration(outcome), step)
    /\ UNCHANGED <<address, dm, win, ias_file, conn, rec, brk, queue, ticks,
                   since, wk, resp, op>>

Record(raises) ==
    /\ Ready
    /\ raises \/ dm \/ conn
    /\ LET r == record(dm, rec, raises)
       IN  /\ ret' = r.ret
           /\ Put(TRUE, r.calls, NextStep("record"))
    /\ rec' = IF raises THEN abort_rec(dm, rec) ELSE TRIAL_OK
    /\ op' = [name |-> "record", dm |-> dm, rec |-> rec]
    /\ NoKeys
    /\ UNCHANGED <<pc, address, dm, win, ias_file, conn, brk, ndrift, error>>

StopRecording(trial_info, given, labels) ==
    /\ Ready
    /\ ias_file # "unset"
    /\ ias_file' = "closed"
    /\ rec' = stopped(rec)
    /\ ret' = None
    /\ op' = [name |-> "stopRecording", trial_info |-> trial_info,
              given |-> given, labels |-> labels]
    /\ NoKeys
    /\ Put(TRUE, stopRecording(trial_info, given, labels),
           NextStep("stopRecording"))
    /\ UNCHANGED <<pc, address, dm, win, conn, brk, ndrift, error>>

CreateIa(trial_index, msg, newTrial) ==
    /\ Ready
    /\ newTrial \/ ias_file = "open"
    /\ ias_file' = "open"
    /\ ret' = None
    /\ op' = [name |-> "create_ia"]
    /\ NoKeys
    /\ Put(TRUE, create_ia(trial_index, msg, newTrial), NextStep("create_ia"))
    /\ UNCHANGED <<pc, address, dm, win, conn, rec, brk, ndrift, error>>

\* create_ia, followed with the content of the file.  It reads self.et and
\* self.folders only
CreateIaFile(trial_index, msg, newTrial) ==
    /\ pc = "idle"
    /\ newTrial \/ ias_file = "open"
    /\ Len(IF newTrial THEN msg ELSE ias_buf \o msg) <= MaxIaLen
    /\ ias_file' = "open"
    /\ ias_path' = IF newTrial THEN trial_index ELSE ias_path
    /\ ias_disk' = IF newTrial
                   THEN open_w(ias_disk, trial_index,
                               IF ias_file = "open" THEN ias_path ELSE 0,
                               ias_buf)
                   ELSE ias_disk
    /\ ias_buf' = IF newTrial THEN msg ELSE ias_buf \o msg
    /\ ias_msgs' = IF newTrial THEN msg ELSE ias_msgs \o msg
    /\ ret' = None
    /\ op' = [name |-> "create_ia", trial_index |-> trial_index,
              msg |-> Text(msg), newTrial |-> newTrial]
    /\ Calls(TRUE, create_ia(trial_index, Text(msg), newTrial),
             NextStep("create_ia"))
    /\ UNCHANGED <<pc, address, dm, win, conn, rec, brk, queue, ticks, since,
                   wk, resp, ndrift, error>>

\* stopRecording, followed with the content of the file it closes
StopRecordingFile(trial_info, given, labels) ==
    /\ pc = "idle"
    /\ ias_file # "unset"
    /\ ias_file' = "closed"
    /\ ias_disk' = close_ias(ias_disk,
                             IF ias_file = "open" THEN ias_path ELSE 0,
                             ias_buf)
    /\ ias_buf' = <<>>
    /\ rec' = stopped(rec)
    /\ ret' = None
    /\ op' = [name |-> "stopRecording", trial_info |-> trial_info,
              given |-> given, labels |-> labels]
    /\ Calls(TRUE, stopRecording(trial_info, given, labels),
             NextStep("stopRecording"))
    /\ UNCHANGED <<pc, address, dm, win, conn, brk, queue, ticks, since, wk,
                   resp, ndrift, error, ias_path, ias_msgs>>

\* window.abort()
Abort ==
    /\ Ready
    /\ ret' = ToString(TRIAL_ERROR)
    /\ rec' = abort_rec(dm, rec)
    /\ op' = [name |-> "abort", dm |-> dm, rec |-> rec]
    /\ NoKeys
    /\ Put(TRUE, abort(dm, rec, GREY.rgb), NextStep("abort"))
    /\ UNCHANGED <<pc, address, dm, win, ias_file, conn, brk, ndrift, error>>

\* connect(address), called again on the object; op keeps the argument and
\* self.address as it was.  When EyeLink(address) raises, self.dm has not
\* been assigned.  The script connects again, if it does, before it sets up
\* the graphics
Connect(arg, elRaises, odRaises, isConn) ==
    /\ pc = "idle"
    /\ win = <<>>
    /\ LET eff == effective_address(address, arg)
           c == connect(eff, elRaises, odRaises, isConn)
       IN  /\ pc' = IF c.exit THEN "exited" ELSE "idle"
           /\ address' = eff
           /\ dm' = IF eff # NoTracker /\ elRaises THEN dm ELSE c.dm
           /\ conn' = c.linked
           /\ ret' = IF c.exit THEN "SystemExit" ELSE None
           /\ Put(TRUE, c.calls, NextStep("connect"))
    /\ op' = [name |-> "connect", arg |-> arg, stored |-> address]
    /\ NoKeys
    /\ UNCHANGED <<win, ias_file, rec, brk, ndrift, error>>

\* the colour arguments tried: the 16 names and values that are none of them
ColourArgs ==
    {COLOURS[i].name : i \in 1..Len(COLOURS)}
    \cup {"black", "LIGHT_GREY", "DARK GREY", ToString(BLACK.host), ""}

Positions == {<<0, 0>>, <<960, 540>>}

\* the calls es of a method of the host screen, which reads self.et only;
\* the script draws on the host, if it does, before it sets up the graphics
HostScreen(name, colour, es) ==
    /\ pc = "idle"
    /\ win = <<>>
    /\ op' = [name |-> name, colour |-> colour]
    /\ ret' = None
    /\ NoKeys
    /\ Put(TRUE, es, NextStep(name))
    /\ UNCHANGED <<pc, address, dm, win, ias_file, conn, rec, brk, ndrift,
                   error>>

ClearHostScreen(colour) ==
    HostScreen("clearHostScreen", colour, clearHostScreen(colour))

DrawHostLine(pos1, pos2, colour) ==
    HostScreen("drawHostLine", colour, drawHostLine(pos1, pos2, colour))

\* checkDisconnect(); op keeps what isRecording() reported and the fields
\* of the facade as they were at the call
CheckDisconnect ==
    /\ Ready
    /\ LET c == checkDisconnect(dm, rec, GREY.rgb)
       IN  /\ ret' = ToString(c.disconnected)
           /\ rec' = IF c.disconnected THEN abort_rec(dm, rec) ELSE rec
           /\ error' = IF c.disconnected THEN ToString(rec) ELSE error
           /\ Put(TRUE, c.calls, NextStep("checkDisconnect"))
    /\ op' = [name |-> "checkDisconnect", dm |-> dm, rec |-> rec,
              fields |-> <<address, dm, win, ias_file, error>>]
    /\ NoKeys
    /\ UNCHANGED <<pc, address, dm, win, ias_file, conn, brk, ndrift>>

\* terminate(), called by the script
Terminate(raises) ==
    /\ Ready
    /\ op' = [name |-> "terminate"]
    /\ NoKeys
    /\ Terminated(TRUE, <<>>, raises, NextStep("terminate"))
    /\ UNCHANGED <<address, dm, win, ias_file, brk, ndrift, error>>

(***************************************************************************)
(* The environment: the keyboard, the clock, the tracker.                  *)
(***************************************************************************)
Live == pc \in {"idle", "wait_key", "calibrate", "driftCheck"} /\ win # <<>>

KeyEvent(ev) ==
    /\ pc = "wait_key"
    /\ Len(queue) < MaxQueue
    /\ queue' = Append(queue, ev)
    /\ since' = IF ev.type = "KEYDOWN" THEN since \cup {ev.key} ELSE since
    /\ UNCHANGED <<pc, address, dm, win, ias_file, conn, rec, brk, ticks, wk,
                   resp, op, ret, seg, step, log, ndrift,
                   error, fvars, ivars, bind>>

Tick ==
    /\ pc = "wait_key"
    /\ ticks - wk.t_start < MaxTime
    /\ ticks' = ticks + 1
    /\ UNCHANGED <<pc, address, dm, win, ias_file, conn, rec, brk, queue,
                   since, wk, resp, op, ret, seg, step, log, ndrift,
                   error, fvars, ivars, bind>>

Disconnect ==
    /\ Live
    /\ ~dm /\ conn
    /\ conn' = FALSE
    /\ rec' = ABORT_EXPT
    /\ UNCHANGED <<pc, address, dm, win, ias_file, brk, queue, ticks, since,
                   wk, resp, op, ret, seg, step, log, ndrift,
                   error, fvars, ivars, bind>>

BreakPress ==
    /\ pc = "driftCheck"
    /\ ~brk
    /\ brk' = TRUE
    /\ UNCHANGED <<pc, address, dm, win, ias_file, conn, rec, queue, ticks,
                   since, wk, resp, op, ret, seg, step, log, ndrift,
                   error, fvars, ivars, bind>>

\* init_files runs before the facade is built; here it has not been called
FIdle ==
    /\ FInit
    /\ results_folder = << <<"results">> >>
    /\ dirs = {}

Init == FIdle /\ EInit

Next ==
    \/ \E addr \in Addresses, elRaises, odRaises, isConn \in BOOLEAN,
          ver \in Versions :
            Construct(addr, elRaises, odRaises, isConn, ver)
    \/ \E bg \in Backgrounds, target \in Targets, picRaises, sound \in BOOLEAN :
            InitCalibration(bg, target, picRaises, sound)
    \/ \E task_key \in KeyLists, stale \in Queues, now \in StartTicks :
            CalibrateCall(task_key, stale, now)
    \/ \E key_list \in KeyLists, duration \in Durations, stale \in Queues,
          now \in StartTicks :
            WaitKeyCall(key_list, duration, stale, now)
    \/ WaitKeyTimeout
    \/ WaitKeyGot
    \/ WaitKeyIgnore
    \/ \E raises \in BOOLEAN : WaitKeyEscape(raises)
    \/ \E raises \in BOOLEAN : CalibrateSetup(raises)
    \/ \E pressed \in BOOLEAN : DriftCheckCall(pressed)
    \/ \E raises \in BOOLEAN : DriftTerminate(raises)
    \/ \E outcome \in DriftOutcomes : DriftIteration(outcome)
    \/ \E raises \in BOOLEAN : Record(raises)
    \/ \E trial_info \in TrialInfos, l \in LabelArgs :
            StopRecording(trial_info, l.given, l.labels)
    \/ \E trial_index \in {1}, msg \in Messages, newTrial \in BOOLEAN :
            CreateIa(trial_index, msg, newTrial)
    \/ Abort
    \/ CheckDisconnect
    \/ \E colour \in ColourArgs : ClearHostScreen(colour)
    \/ \E pos1, pos2 \in Positions, colour \in ColourArgs :
            DrawHostLine(pos1, pos2, colour)
    \/ \E arg \in ConnectArgs, elRaises, odRaises, isConn \in BOOLEAN :
            Connect(arg, elRaises, odRaises, isConn)
    \/ \E raises \in BOOLEAN : Terminate(raises)
    \/ \E ev \in EventKinds : KeyEvent(ev)
    \/ Tick
    \/ Disconnect
    \/ BreakPress

Spec == Init /\ [][Next]_vars

InitFiles == FInit /\ EInit

\* the facade with the interest area file followed
IaNext ==
    \/ \E addr \in Addresses, elRaises, odRaises, isConn \in BOOLEAN,
          ver \in Versions :
            Construct(addr, elRaises, odRaises, isConn, ver)
    \/ \E trial_index \in TrialIndexes, msg \in IaMsgs, newTrial \in BOOLEAN :
            CreateIaFile(trial_index, msg, newTrial)
    \/ \E trial_info \in TrialInfos, l \in LabelArgs :
            StopRecordingFile(trial_info, l.given, l.labels)

SpecIa == Init /\ [][IaNext]_vars

\* a wrapper of pylink_c is called
BindCall(w, args, result) ==
    /\ bind' = wrapper_call(w, args, result)
    /\ UNCHANGED <<fvars, pc, address, dm, win, ias_file, conn, rec, brk,
                   queue, ticks, since, wk, resp, op, ret, seg, step, log,
                   ndrift, error, ivars>>

BindNext ==
    \E name \in WrapperNames :
        \E args \in ArgsFor(bound(name)),
           result \in Results(declaration(bound(name).lib).restype) :
            BindCall(bound(name), args, result)

SpecBind == Init /\ [][BindNext]_vars

SpecFiles == InitFiles /\ [][FNext]_vars

(***************************************************************************)
(* The claims.                                                             *)
(***************************************************************************)
Has(es, e) == \E i \in 1..Len(es) : es[i] = e

Raised(es, call) == \E i \in 1..Len(es) : es[i].call = "except" /\ es[i].arg = call

NonDecreasing(f) == \A i, j \in 1..Len(f) : i < j => f[i] <= f[j]

\* the stage of the recipe a tracker call belongs to, as the code orders them
StageInCode(c) ==
    CASE c = <<"openDataFile", "connect">> -> 1
      [] c = <<"setOfflineMode", "configure">> -> 2
      [] c = <<"sendCommand", "configure">> -> 3
      [] c[1] = "doTrackerSetup" -> 4
      [] c = <<"setOfflineMode", "record">> -> 5
      [] c[1] = "startRecording" -> 5
      [] c[1] = "stopRecording" -> 6
      [] OTHER -> 7

\* the same, with the first three stages in the order "offline mode ->
\* configure -> open file"
StageAsClaimed(c) ==
    CASE c = <<"setOfflineMode", "configure">> -> 1
      [] c = <<"sendCommand", "configure">> -> 2
      [] c = <<"openDataFile", "connect">> -> 3
      [] c[1] = "doTrackerSetup" -> 4
      [] c = <<"setOfflineMode", "record">> -> 5
      [] c[1] = "startRecording" -> 5
      [] c[1] = "stopRecording" -> 6
      [] OTHER -> 7

\* C1 as stated: in a session that follows Script the tracker calls are
\* issued in the order offline mode -> configure -> open file -> calibrate ->
\* record -> stop -> close, so setOfflineMode and configure's commands come
\* before openDataFile.
C1_OrderAsClaimed ==
    step >= 0 => NonDecreasing([i \in 1..Len(log) |-> StageAsClaimed(log[i])])

\* C1 amended: in a session that follows Script the tracker calls are issued
\* in the order open file -> offline mode -> configure -> calibrate -> record
\* -> stop -> close: openDataFile comes before setOfflineMode and configure's
\* commands.
C1_OrderInCode ==
    step >= 0 => NonDecreasing([i \in 1..Len(log) |-> StageInCode(log[i])])

\* a whole session on a connected tracker, every stage of it reached
C1_Witness ==
    /\ step = Len(Script)
    /\ pc = "exited"
    /\ ~dm
    /\ \A n \in 1..7 : \E i \in 1..Len(log) : StageInCode(log[i]) = n
    /\ Len(log) > 0 /\ log[Len(log)] = <<"close", "terminate">>

Printing == {"EyeLink", "openDataFile", "doTrackerSetup", "startRecording",
             "receiveDataFile"}

FollowedByPrint(i) ==
    i < Len(seg) /\ seg[i + 1].call = "print" /\ seg[i + 1].arg = "ERROR:"

\* C2 as stated: whenever EyeLink(address), openDataFile, doTrackerSetup,
\* doDriftCorrect, startRecording or receiveDataFile raises and the facade
\* catches it, a message is printed before the facade goes on.
C2_AllSixPrint ==
    \A i \in 1..Len(seg) :
        (seg[i].call = "except"
         /\ seg[i].arg \in Printing \cup {"doDriftCorrect"})
        => FollowedByPrint(i)

\* C2 amended: a caught failure of EyeLink(address), openDataFile,
\* doTrackerSetup, startRecording or receiveDataFile is followed at once by
\* a printed "ERROR:" line; a failure of doDriftCorrect is caught and
\* nothing is printed for it.
C2_FiveOfSixPrint ==
    \A i \in 1..Len(seg) :
        seg[i].call = "except" =>
            /\ seg[i].arg \in Printing => FollowedByPrint(i)
            /\ seg[i].arg = "doDriftCorrect" =>
                  (i = Len(seg) \/ seg[i + 1].call # "print")

\* a drift check that raised, then a terminate whose file transfer raised
C2_Witness ==
    /\ op.name = "driftCheck"
    /\ pc = "exited"
    /\ Raised(seg, "doDriftCorrect")
    /\ Raised(seg, "receiveDataFile")

ValidName(name) ==
    /\ Len(name) <= 8
    /\ \A i \in 1..Len(name) : name[i] \in Letters \cup Digits \cup {"_"}

ErrorLines == {"ERROR: Invalid EDF filename",
               "ERROR: EDF filename should not exceed 8 characters"}

TerminateCore(e) ==
    /\ e.by = "terminate"
    /\ e.call \in {"setOfflineMode", "closeDataFile", "receiveDataFile",
                   "close"}

CallNames(es) == [i \in 1..Len(es) |-> es[i].call]

\* C5: terminate on a connected, non-dummy tracker issues setOfflineMode,
\* closeDataFile, receiveDataFile and close in that order, also when
\* receiveDataFile raises RuntimeError; in every mode it ends by quitting
\* pygame and leaving the process.
C5_TerminateOrder ==
    (\E i \in 1..Len(seg) : seg[i].by = "terminate") =>
        /\ pc = "exited"
        /\ Len(seg) >= 2
        /\ seg[Len(seg) - 1] = E("pygame.quit", "", "terminate")
        /\ seg[Len(seg)] = E("sys.exit", "", "terminate")
        /\ Has(seg, E("isConnected", ToString(TRUE), "terminate")) =>
              CallNames(SelectSeq(seg, TerminateCore))
                  = <<"setOfflineMode", "closeDataFile", "receiveDataFile",
                      "close">>

\* terminate, called on a connected tracker, whose file transfer raised
C5_Witness ==
    /\ op.name = "terminate"
    /\ Has(seg, E("isConnected", ToString(TRUE), "terminate"))
    /\ Raised(seg, "receiveDataFile")
    /\ Has(seg, E("close", "", "terminate"))

\* C6 as stated: driftCheck returns pylink.ABORT_EXPT when it found the
\* tracker gone or break pressed and called terminate; otherwise it returns
\* None once a drift check succeeded.
C6_ReturnsAbort ==
    op.name = "driftCheck" =>
        /\ pc = "exited" => ret = ToString(ABORT_EXPT)
        /\ pc = "idle" => ret = None

PumpThenStop(es) ==
    \E i \in 1..Len(es) - 1 :
        /\ es[i] = E("pumpDelay", "100", "abort")
        /\ es[i + 1] = E("stopRecording", "", "abort")

\* C7 as stated: window.abort, called in non-dummy mode while isRecording
\* reports TRIAL_OK, issues pumpDelay(100) and then stopRecording; it
\* returns TRIAL_ERROR in every mode, and in non-dummy mode the TRIAL_RESULT
\* message comes after the Data Viewer clear messages.
C7_AbortStopsRecording ==
    op.name = "abort" =>
        /\ ret = ToString(TRIAL_ERROR)
        /\ (~op.dm /\ op.rec = TRIAL_OK) => PumpThenStop(seg)
        /\ ~op.dm =>
              \E i \in 1..Len(seg) - 2 :
                  /\ seg[i].arg = "blank_screen"
                  /\ seg[i + 1].by = "clearDVScreen"
                  /\ seg[i + 2] = E("sendMessage",
                                    "TRIAL_RESULT " \o ToString(TRIAL_ERROR),
                                    "abort")

RecordShape(ownPumpOnly) ==
    op.name = "record" =>
        LET raised == Raised(seg, "startRecording")
        IN  /\ seg[1] = E("setOfflineMode", "", "record")
            /\ seg[2] = E("startRecording", "1,1,1,1", "record")
            /\ (ret = ToString(TRIAL_ERROR)) <=> raised
            /\ raised =>
                  /\ \E i \in 1..Len(seg) : seg[i].by = "abort"
                  /\ \A i \in 1..Len(seg) :
                        seg[i].call = "pumpDelay" =>
                            (ownPumpOnly /\ seg[i].by # "record")
            /\ ~raised =>
                  /\ ret = None
                  /\ seg[Len(seg)] = E("pumpDelay", "100", "record")

IsSendMessage(e) == e.call = "sendMessage"

\* C9: stopRecording closes the IAS file, issues pumpDelay(100) and then
\* stopRecording, sends the elements of trial_info in order, then the
\* '!V TRIAL_VAR_DATA' message exactly when trial_labels is a non-empty
\* list, and last of all the 'TRIAL_RESULT TRIAL_OK' message.
C9_StopRecordingMessages ==
    op.name = "stopRecording" =>
        LET sent == SelectSeq(seg, IsSendMessage)
            labelled == op.given /\ op.labels # <<>>
        IN  /\ SubSeq(seg, 1, 3)
                  = <<E("ias_file.close", "", "stopRecording"),
                      E("pumpDelay", "100", "stopRecording"),
                      E("stopRecording", "", "stopRecording")>>
            /\ [i \in 1..Len(sent) |-> sent[i].arg]
                  = op.trial_info
                    \o (IF labelled
                        THEN <<"!V TRIAL_VAR_DATA " \o ToString(op.labels)>>
                        ELSE <<>>)
                    \o <<"TRIAL_RESULT 0">>
            /\ seg[Len(seg)].call = "sendMessage"
            /\ seg[Len(seg)].arg = "TRIAL_RESULT 0"

\* two messages and a list of labels
C9_Witness ==
    /\ op.name = "stopRecording"
    /\ Len(op.trial_info) = 2
    /\ op.given /\ op.labels # <<>>

WaitKeyReturned == (op.name = "wait_key" /\ ret = "resp") \/ pc = "calibrate"

\* C10: wait_key returns [key name, t_start, press time] for a key of
\* key_list pressed after the call began, or [None, t_start, -1] when more
\* than duration ms went by; with the default duration it returns a key;
\* before it returns the window is filled with the calibration background
\* colour.
C10_WaitKeyResponse ==
    WaitKeyReturned =>
        /\ Len(seg) >= 2
        /\ seg[Len(seg) - 1] = E("fill", RgbStr(win), "wait_key")
        /\ seg[Len(seg)] = E("flip", "", "wait_key")
        /\ resp[2] = wk.t_start
        /\ IF resp[1] # None
           THEN /\ \E k \in since \cap wk.key_list : key_name(k) = resp[1]
                /\ resp[3] >= wk.t_start /\ resp[3] = ticks
           ELSE /\ resp[3] = -1
                /\ ticks - wk.t_start > wk.duration
        /\ wk.duration = maxsize => resp[1] # None

\* a key of the list, pressed a while after the call began, is returned
C10_Witness ==
    /\ op.name = "wait_key"
    /\ ret = "resp"
    /\ resp[1] = "return"
    /\ resp[3] > resp[2]

\* the wait ran out
C10_TimeoutReached ==
    /\ op.name = "wait_key"
    /\ ret = "resp"
    /\ resp[1] = None

HasEscape(q) ==
    \E i \in 1..Len(q) : q[i].type = "KEYDOWN" /\ q[i].key = K_ESCAPE

\* a pass of wait_key's loop over the queued events: the time is not out
\* and the queue is taken
EventsProcessed ==
    pc = "wait_key" /\ ~TimedOut /\ queue # <<>> /\ queue' = <<>>

\* C11: whenever a pass of wait_key's loop processes a KEYDOWN of ESCAPE,
\* in key_list or not, terminate is invoked and runs to sys.exit(); a step
\* in which wait_key returns to its caller has processed no ESCAPE.
C11_EscapeTerminates ==
    [][/\ (EventsProcessed /\ HasEscape(queue)) =>
              /\ pc' = "exited"
              /\ ret' = "SystemExit"
              /\ \E i \in 1..Len(seg') : seg'[i].by = "terminate"
              /\ seg'[Len(seg')] = E("sys.exit", "", "terminate")
       /\ (pc = "wait_key" /\ pc' \in {"idle", "calibrate"}) =>
              ~(~TimedOut /\ HasEscape(queue))]_vars

\* ESCAPE, a key of key_list, was pressed: the response was set and the
\* process left
C11_Witness ==
    /\ op.name = "wait_key"
    /\ pc = "exited"
    /\ K_ESCAPE \in wk.key_list
    /\ resp[1] = "escape"
    /\ seg[Len(seg)] = E("sys.exit", "", "terminate")

\* ESCAPE, not a key of key_list, was pressed
C11_EscapeNotListed ==
    /\ op.name = "wait_key"
    /\ pc = "exited"
    /\ K_ESCAPE \notin wk.key_list
    /\ K_ESCAPE \in since

\* C12: checkDisconnect returns True exactly when isRecording() does not
\* report TRIAL_OK; it has then sent the 'tracker_disconnected' message,
\* called window.abort after it and stored the reported code in self.error;
\* when it returns False it sent no message, called no abort and left the
\* fields of the facade as they were.
C12_CheckDisconnect ==
    op.name = "checkDisconnect" =>
        /\ ret \in {ToString(TRUE), ToString(FALSE)}
        /\ (ret = ToString(TRUE)) <=> (op.rec # TRIAL_OK)
        /\ seg[1] = E("isRecording", ToString(op.rec), "checkDisconnect")
        /\ ret = ToString(TRUE) =>
              /\ seg[2] = E("sendMessage", "tracker_disconnected",
                            "checkDisconnect")
              /\ Len(seg) > 2
              /\ \A i \in 3..Len(seg) : seg[i].by \in {"abort", "clearDVScreen"}
              /\ error = ToString(op.rec)
        /\ ret = ToString(FALSE) =>
              /\ Len(seg) = 1
              /\ <<address, dm, win, ias_file, error>> = op.fields

\* the tracker reported ABORT_EXPT: the code is kept in self.error
C12_Witness ==
    /\ op.name = "checkDisconnect"
    /\ ret = ToString(TRUE)
    /\ op.rec = ABORT_EXPT
    /\ error = ToString(ABORT_EXPT)

\* a recording runs: False, and a code stored earlier stays
C12_StillRecording ==
    /\ op.name = "checkDisconnect"
    /\ ret = ToString(FALSE)
    /\ error # "unset"

C13_DefaultKeepsStored ==
    /\ op.name = "connect"
    /\ pc = "idle"
    /\ op.arg = Default
    /\ op.stored = NoTracker
    /\ dm

ColourNames == {COLOURS[i].name : i \in 1..Len(COLOURS)}

HostCodeSent(cmd, prefix, colour) ==
    \E i \in 1..Len(COLOURS) :
        /\ COLOURS[i].name = colour
        /\ cmd = prefix \o ToString(COLOURS[i].host)

C14_UnknownColour ==
    /\ op.name = "clearHostScreen"
    /\ op.colour = "LIGHT_GREY"
    /\ seg[1].call = "print"

\* C15 as stated: create_ia with newTrial=True sends the '!V IAREA FILE'
\* message with the path <aoi folder>/IA_<trial_index>.ias, opens that file
\* for writing and writes msg; with newTrial=False it sends no message and
\* writes msg to the file of the last newTrial=True call; the content of
\* the file, once it is closed, is the msgs since that call in call order.
C15_IaFileContent ==
    /\ op.name = "create_ia" =>
          seg = (IF op.newTrial
                 THEN <<E("sendMessage",
                          "!V IAREA FILE " \o AoiFolder \o "/IA_"
                          \o ToString(op.trial_index) \o ".ias", "create_ia"),
                        E("open",
                          AoiFolder \o "/IA_" \o ToString(op.trial_index)
                          \o ".ias w", "create_ia")>>
                 ELSE <<>>)
                \o <<E("ias_file.write", op.msg, "create_ia")>>
    /\ (ias_file = "closed" /\ ias_path # 0) =>
          ias_disk[ias_path] = ias_msgs

\* C16 as stated: every wrapper of the binding module calls the library
\* function it is named after with the arguments it was given, as many as
\* that function's declared argtypes, and returns the function's result
\* unchanged.
C16_PassThrough ==
    bind # NoBind =>
        /\ bind.passed = bind.args
        /\ Len(bind.passed) = declaration(bind.lib).nargs
        /\ bind.ret = bind.result

=============================================================================
